---- MODULE Spec2Model ----
(***************************************************************************)
(* Model of spectral_tool_1.py: the spectral index engine,                 *)
(* analyze_spectral_data(data, detection_type), under the specification    *)
(* Spec; the Streamlit analysis page that loads a table, filters it and    *)
(* calls the engine, under the specification AppSpec; and the whole        *)
(* application, from the login page through its six pages, under the       *)
(* specification SiteSpec.                                                 *)
(*                                                                         *)
(* Numbers.  The code computes in IEEE doubles (numpy float64 and Python   *)
(* floats).  A number is modelled as a record [k, n, d]: k = "fin" is the  *)
(* exact rational n/d in lowest terms with d > 0, and k = "nan", "pinf",   *)
(* "ninf" are the three non-finite doubles, which numpy produces (with a   *)
(* warning, not an exception) when a float64 is divided by zero.  The      *)
(* rounding error of double arithmetic is not modelled; Python's           *)
(* round(x, ndigits) is modelled by what it does, round-half-even to       *)
(* ndigits decimals.                                                       *)
(*                                                                         *)
(* Units.  A spectrum row is [Wavelength, Reflectance]: the wavelength in  *)
(* whole nanometres and the reflectance in thousandths (200 is 0.200).     *)
(*                                                                         *)
(* Strings.  The code's Chinese literals are written in ASCII:             *)
(*   detection_type  chengshudu -> "Maturity", yelvsu -> "Chlorophyll",    *)
(*                   huaqingsu -> "Anthocyanin"                            *)
(*   fiber_quality   you -> "excellent", liang -> "good", zhong -> "fair"  *)
(*   maturity_status chengshu -> "mature", weichengshu -> "immature"       *)
(*   recommendation  "harvest_within_3_days", "harvest_in_5_to_7_days",    *)
(*                   "keep_growing"                                        *)
(*   status          zhengchang -> "normal", piangao -> "high",            *)
(*                   piandi -> "low"                                       *)
(*   antioxidant     qiang -> "strong", zhong -> "medium", ruo -> "weak"   *)
(*   accumulation_stage  "fully_mature", "mid_mature", "early"             *)
(***************************************************************************)
EXTENDS Integers, Sequences, FiniteSets

\* the latest call of analyze_spectral_data: its argument, its locals as the
\* call left them, the value it returned and whether it has returned; and
\* detection_type, the mode (st.session_state.detection_type in the session)
VARIABLES data, detection_type, ndvi, red_edge, result, pc

\* st.session_state of init_session_state, as far as analysis_page uses it
VARIABLES uploaded_data, upload_time, filtered_data, selected_wavelength,
          detection_result, analysis_history, analysis_completed, just_analyzed

\* the page outside st.session_state: the file held by the st.file_uploader
\* widget, the st.slider widget, the st.success / st.error messages of the
\* latest script run, and the wall clock (datetime.now(), in whole seconds)
VARIABLES uploaded_file, slider, messages, now

\* st.session_state of init_session_state: the page main dispatches, the
\* login flag and the name of the user
VARIABLES current_page, logged_in, user_name

\* the two text inputs of the login form, as the latest submission left them
VARIABLES login_form

\* st.session_state of the simulated Bluetooth link
VARIABLES bluetooth_status, available_devices, connected_device,
          is_receiving_data, last_connection_time, data_buffer

engine == <<data, ndvi, red_edge, result, pc>>

session == <<uploaded_data, upload_time, filtered_data, selected_wavelength,
             detection_result, analysis_history, analysis_completed,
             just_analyzed>>

widgets == <<uploaded_file, slider, messages, login_form>>

account == <<current_page, logged_in, user_name>>

bluetooth == <<bluetooth_status, available_devices, connected_device,
               is_receiving_data, last_connection_time, data_buffer>>

vars == <<engine, detection_type, session, widgets, now, account, bluetooth>>

(***************************************************************************)
(* Bounds of the checked input family.                                     *)
(***************************************************************************)
\* short spectra have 0..MaxShort samples, every reflectance chosen freely
MaxShort == 3
\* long spectra have NdviIndex .. NdviIndex + MaxExtra samples
MaxExtra == 2

(***************************************************************************)
(* Program constants.                                                      *)
(***************************************************************************)
\* reflectance[100], and the guard len(reflectance) > 100
NdviIndex == 100
\* the red-edge band, wavelength >= 680 and wavelength <= 750
BandLow == 680
BandHigh == 750

(***************************************************************************)
(* Double arithmetic.                                                      *)
(***************************************************************************)
Abs(x) == IF x < 0 THEN -x ELSE x

RECURSIVE GCD(_, _)
GCD(a, b) == IF b = 0 THEN a ELSE GCD(b, a % b)

\* the finite double n/d (d # 0), in lowest terms with a positive denominator
Fin(n, d) ==
    LET s == IF d < 0 THEN -1 ELSE 1
        g == GCD(Abs(n), Abs(d))
    IN  [k |-> "fin", n |-> (s * n) \div g, d |-> (s * d) \div g]

NaN == [k |-> "nan", n |-> 0, d |-> 1]
PInf == [k |-> "pinf", n |-> 0, d |-> 1]
NInf == [k |-> "ninf", n |-> 0, d |-> 1]
\* a local of analyze_spectral_data that the call never assigned
Unset == [k |-> "unset", n |-> 0, d |-> 1]

Num(i) == Fin(i, 1)
Zero == Num(0)

IsFin(x) == x.k = "fin"
IsInf(x) == x.k \in {"pinf", "ninf"}

\* -1, 0, 1: the sign of a finite or infinite double
Sign(x) ==
    CASE x.k = "pinf" -> 1
      [] x.k = "ninf" -> -1
      [] OTHER -> IF x.n > 0 THEN 1 ELSE IF x.n < 0 THEN -1 ELSE 0

Signed(s) == IF s > 0 THEN PInf ELSE NInf

FNeg(x) ==
    CASE x.k = "fin" -> Fin(-x.n, x.d)
      [] x.k = "pinf" -> NInf
      [] x.k = "ninf" -> PInf
      [] OTHER -> x

FAdd(x, y) ==
    IF x.k = "nan" \/ y.k = "nan" THEN NaN
    ELSE IF IsInf(x) /\ IsInf(y) THEN (IF x.k = y.k THEN x ELSE NaN)
    ELSE IF IsInf(x) THEN x
    ELSE IF IsInf(y) THEN y
    ELSE Fin(x.n * y.d + y.n * x.d, x.d * y.d)

FSub(x, y) == FAdd(x, FNeg(y))

FMul(x, y) ==
    IF x.k = "nan" \/ y.k = "nan" THEN NaN
    ELSE IF IsInf(x) \/ IsInf(y)
         THEN (IF Sign(x) * Sign(y) = 0 THEN NaN ELSE Signed(Sign(x) * Sign(y)))
    ELSE Fin(x.n * y.n, x.d * y.d)

\* float64 division: x/0 is +-inf, 0/0 is nan, no exception is raised
FDiv(x, y) ==
    IF x.k = "nan" \/ y.k = "nan" THEN NaN
    ELSE IF IsInf(x) /\ IsInf(y) THEN NaN
    ELSE IF IsInf(x) THEN Signed(Sign(x) * (IF Sign(y) < 0 THEN -1 ELSE 1))
    ELSE IF IsInf(y) THEN Zero
    ELSE IF y.n = 0 THEN (IF x.n = 0 THEN NaN ELSE Signed(Sign(x)))
    ELSE Fin(x.n * y.d, x.d * y.n)

Rank(x) == CASE x.k = "pinf" -> 1 [] x.k = "ninf" -> -1 [] OTHER -> 0

\* x < y on doubles: every comparison with nan is False
FLt(x, y) ==
    /\ x.k # "nan"
    /\ y.k # "nan"
    /\ \/ Rank(x) < Rank(y)
       \/ IsFin(x) /\ IsFin(y) /\ x.n * y.d < y.n * x.d

FGt(x, y) == FLt(y, x)

\* x == y on doubles: nan equals nothing
FEq(x, y) ==
    \/ IsFin(x) /\ IsFin(y) /\ x.n * y.d = y.n * x.d
    \/ IsInf(x) /\ x.k = y.k

FLe(x, y) == FLt(x, y) \/ FEq(x, y)

FGe(x, y) == FLe(y, x)

\* Python's builtin max(a, b): b if b > a else a
PyMax(a, b) == IF FGt(b, a) THEN b ELSE a

\* Python's builtin min(a, b): b if b < a else a
PyMin(a, b) == IF FLt(b, a) THEN b ELSE a

RECURSIVE Pow10(_)
Pow10(e) == IF e = 0 THEN 1 ELSE 10 * Pow10(e - 1)

\* Python's round(x, ndigits): half-even to ndigits decimals; nan and the
\* infinities are returned as they are
Round(x, ndigits) ==
    IF ~IsFin(x) THEN x
    ELSE LET p == Pow10(ndigits)
             i == x.n \div x.d
             r == x.n % x.d
             q == (r * p) \div x.d
             r2 == (r * p) % x.d
             m == i * p + q
             up == 2 * r2 > x.d \/ (2 * r2 = x.d /\ m % 2 = 1)
         IN  Fin(IF up THEN m + 1 ELSE m, p)

(***************************************************************************)
(* The spectrum (a DataFrame with columns Wavelength and Reflectance).     *)
(***************************************************************************)
\* data is None
NoData == [none |-> TRUE, rows |-> <<>>]

Frame(rows) == [none |-> FALSE, rows |-> rows]

\* a reflectance cell (thousandths) as a double
Refl(v) == Fin(v, 1000)

\* data['Reflectance'].values
ReflectanceOf(d) == [i \in 1..Len(d.rows) |-> d.rows[i].Reflectance]

\* data['Wavelength'].values
WavelengthOf(d) == [i \in 1..Len(d.rows) |-> d.rows[i].Wavelength]

(***************************************************************************)
(* analyze_spectral_data: the two indices.                                 *)
(***************************************************************************)
\* mutant of IsEmpty: only "data is None" is tested
IsEmpty_none_only(d) == d.none

\* data is None or len(data) == 0
IsEmpty(d) == d.none \/ Len(d.rows) = 0

\* mutant of ndvi_of: the guard is len >= 100 and the sample read is the 100th
ndvi_of_from_100th(reflectance) ==
    IF Len(reflectance) >= NdviIndex
    THEN LET last == Refl(reflectance[Len(reflectance)])
             at100 == Refl(reflectance[NdviIndex])
         IN  FDiv(FSub(last, at100), FAdd(last, at100))
    ELSE Zero

\* mutant of ndvi_of: reflectance[0] is read where reflectance[-1] is meant
ndvi_of_first_sample(reflectance) ==
    IF Len(reflectance) > NdviIndex
    THEN LET last == Refl(reflectance[1])
             at100 == Refl(reflectance[NdviIndex + 1])
         IN  FDiv(FSub(last, at100), FAdd(last, at100))
    ELSE Zero

\* ndvi = (reflectance[-1] - reflectance[100]) / (reflectance[-1] + reflectance[100])
\*        if len(reflectance) > 100 else 0
\* (numpy indexes from 0: reflectance[100] is the 101st sample)
ndvi_of(reflectance) ==
    IF Len(reflectance) > NdviIndex
    THEN LET last == Refl(reflectance[Len(reflectance)])
             at100 == Refl(reflectance[NdviIndex + 1])
         IN  FDiv(FSub(last, at100), FAdd(last, at100))
    ELSE Zero

\* mutant of InBand: the band without its two end points
InBand_exclusive(w) == w > BandLow /\ w < BandHigh

\* (wavelength >= 680) & (wavelength <= 750)
InBand(w) == w >= BandLow /\ w <= BandHigh

\* reflectance[mask]: the samples the mask selects, in order
Masked(reflectance, wavelength) ==
    LET positions == [i \in 1..Len(reflectance) |-> i]
        selected == SelectSeq(positions, LAMBDA i : InBand(wavelength[i]))
    IN  [j \in 1..Len(selected) |-> reflectance[selected[j]]]

\* the sum of y[i] + y[i+1] over the consecutive pairs from i on
RECURSIVE PairSum(_, _)
PairSum(y, i) == IF i >= Len(y) THEN 0 ELSE y[i] + y[i + 1] + PairSum(y, i + 1)

\* np.trapz(y) with its default spacing dx = 1: sum((y[i] + y[i+1]) / 2);
\* 0 for fewer than two samples.  y is in thousandths.
trapz(y) == Fin(PairSum(y, 1), 2000)

\* red_edge = np.trapz(reflectance[mask]) if sum(mask) > 0 else 0
red_edge_of(reflectance, wavelength) ==
    LET band == Masked(reflectance, wavelength)
    IN  IF Len(band) > 0 THEN trapz(band) ELSE Zero

(***************************************************************************)
(* analyze_spectral_data: the three result shapes.                         *)
(***************************************************************************)
\* mutant of maturity_score_of: the score is not clamped
maturity_score_unclamped(nd, re) ==
    FAdd(FAdd(Num(50), FMul(nd, Num(100))), FMul(re, Num(50)))

\* maturity_score = min(100, max(0, 50 + ndvi * 100 + red_edge * 50))
maturity_score_of(nd, re) ==
    PyMin(Num(100),
          PyMax(Zero, FAdd(FAdd(Num(50), FMul(nd, Num(100))), FMul(re, Num(50)))))

\* boll_weight = 4.5 + (maturity_score / 100) * 1.5
boll_weight_of(ms) == FAdd(Fin(9, 2), FMul(FDiv(ms, Num(100)), Fin(3, 2)))

\* "you" if maturity_score > 80 else "liang" if maturity_score > 60 else "zhong"
fiber_quality_of(ms) ==
    IF FGt(ms, Num(80)) THEN "excellent"
    ELSE IF FGt(ms, Num(60)) THEN "good" ELSE "fair"

\* "chengshu" if maturity_score >= 60 else "weichengshu"
maturity_status_of(ms) == IF FGe(ms, Num(60)) THEN "mature" ELSE "immature"

recommendation_of(ms) ==
    IF FGt(ms, Num(80)) THEN "harvest_within_3_days"
    ELSE IF FGt(ms, Num(60)) THEN "harvest_in_5_to_7_days" ELSE "keep_growing"

\* mutant of maturity_confidence_of: the confidence is not rounded
maturity_confidence_unrounded(ms) ==
    PyMin(Num(95), FAdd(Num(70), FMul(ms, Fin(1, 4))))

\* round(min(95, 70 + maturity_score * 0.25), 1)
maturity_confidence_of(ms) ==
    Round(PyMin(Num(95), FAdd(Num(70), FMul(ms, Fin(1, 4)))), 1)

\* mutant of MaturityResult: boll_weight is computed from the rounded score
MaturityResult_weight_from_rounded(nd, re) ==
    LET maturity_score == maturity_score_of(nd, re)
    IN  [type |-> "Maturity",
         score |-> Round(maturity_score, 1),
         boll_weight |-> Round(boll_weight_of(Round(maturity_score, 1)), 2),
         fiber_quality |-> fiber_quality_of(maturity_score),
         maturity_status |-> maturity_status_of(maturity_score),
         recommendation |-> recommendation_of(maturity_score),
         confidence |-> maturity_confidence_of(maturity_score)]

MaturityResult(nd, re) ==
    LET maturity_score == maturity_score_of(nd, re)
    IN  [type |-> "Maturity",
         score |-> Round(maturity_score, 1),
         boll_weight |-> Round(boll_weight_of(maturity_score), 2),
         fiber_quality |-> fiber_quality_of(maturity_score),
         maturity_status |-> maturity_status_of(maturity_score),
         recommendation |-> recommendation_of(maturity_score),
         confidence |-> maturity_confidence_of(maturity_score)]

\* chlorophyll_a = 1.2 + ndvi * 0.8
chlorophyll_a_of(nd) == FAdd(Fin(6, 5), FMul(nd, Fin(4, 5)))

\* mutant of chlorophyll_b_of: chlorophyll b falls as ndvi rises
chlorophyll_b_falling(nd) == FSub(Num(1), FMul(nd, Fin(3, 5)))

\* chlorophyll_b = 1.0 + ndvi * 0.6
chlorophyll_b_of(nd) == FAdd(Num(1), FMul(nd, Fin(3, 5)))

\* "zhengchang" if 2.0 <= total <= 3.0 else "piangao" if total > 3.0 else "piandi"
chlorophyll_status_of(total) ==
    IF FLe(Num(2), total) /\ FLe(total, Num(3)) THEN "normal"
    ELSE IF FGt(total, Num(3)) THEN "high" ELSE "low"

\* round(min(95, 65 + total_chlorophyll * 10), 1)
chlorophyll_confidence_of(total) ==
    Round(PyMin(Num(95), FAdd(Num(65), FMul(total, Num(10)))), 1)

ChlorophyllResult(nd) ==
    LET chlorophyll_a == chlorophyll_a_of(nd)
        chlorophyll_b == chlorophyll_b_of(nd)
        total_chlorophyll == FAdd(chlorophyll_a, chlorophyll_b)
    IN  [type |-> "Chlorophyll",
         total |-> Round(total_chlorophyll, 2),
         chlorophyll_a |-> Round(chlorophyll_a, 2),
         chlorophyll_b |-> Round(chlorophyll_b, 2),
         status |-> chlorophyll_status_of(total_chlorophyll),
         confidence |-> chlorophyll_confidence_of(total_chlorophyll)]

\* mutant of anthocyanin_of: the content rises with ndvi
anthocyanin_rising(nd) == FAdd(Fin(3, 2), FMul(FAdd(Num(1), nd), Fin(4, 5)))

\* anthocyanin = 1.5 + (1 - ndvi) * 0.8
anthocyanin_of(nd) == FAdd(Fin(3, 2), FMul(FSub(Num(1), nd), Fin(4, 5)))

\* "qiang" if anthocyanin > 2.0 else "zhong" if anthocyanin > 1.5 else "ruo"
antioxidant_of(a) ==
    IF FGt(a, Num(2)) THEN "strong"
    ELSE IF FGt(a, Fin(3, 2)) THEN "medium" ELSE "weak"

accumulation_stage_of(a) ==
    IF FGt(a, Num(2)) THEN "fully_mature"
    ELSE IF FGt(a, Fin(3, 2)) THEN "mid_mature" ELSE "early"

\* round(min(95, 60 + anthocyanin * 15), 1)
anthocyanin_confidence_of(a) ==
    Round(PyMin(Num(95), FAdd(Num(60), FMul(a, Num(15)))), 1)

AnthocyaninResult(nd) ==
    LET anthocyanin == anthocyanin_of(nd)
    IN  [type |-> "Anthocyanin",
         content |-> Round(anthocyanin, 2),
         antioxidant |-> antioxidant_of(anthocyanin),
         accumulation_stage |-> accumulation_stage_of(anthocyanin),
         confidence |-> anthocyanin_confidence_of(anthocyanin)]

\* return None
NoResult == [type |-> "None"]

\* the three detection modes the function knows
DetectionTypes == {"Maturity", "Chlorophyll", "Anthocyanin"}

\* mutant of analyze_spectral_data: the call looks at the session and gives
\* no result once the history holds a record
analyze_spectral_data_stateful(d, dt) ==
    IF d.none \/ Len(d.rows) = 0 \/ analysis_history # <<>> THEN NoResult
    ELSE IF dt = "Maturity"
         THEN MaturityResult(ndvi_of(ReflectanceOf(d)),
                             red_edge_of(ReflectanceOf(d), WavelengthOf(d)))
    ELSE IF dt = "Chlorophyll" THEN ChlorophyllResult(ndvi_of(ReflectanceOf(d)))
    ELSE IF dt = "Anthocyanin" THEN AnthocyaninResult(ndvi_of(ReflectanceOf(d)))
    ELSE NoResult

\* mutant of analyze_spectral_data: a division by zero ends the call with
\* no result
analyze_spectral_data_raising(d, dt) ==
    IF IsEmpty(d) THEN NoResult
    ELSE LET reflectance == ReflectanceOf(d)
             wavelength == WavelengthOf(d)
             nd == ndvi_of(reflectance)
             re == red_edge_of(reflectance, wavelength)
         IN  IF ~IsFin(nd) THEN NoResult
             ELSE IF dt = "Maturity" THEN MaturityResult(nd, re)
             ELSE IF dt = "Chlorophyll" THEN ChlorophyllResult(nd)
             ELSE IF dt = "Anthocyanin" THEN AnthocyaninResult(nd)
             ELSE NoResult

\* the function from its first line to its last
analyze_spectral_data(d, dt) ==
    IF IsEmpty(d) THEN NoResult
    ELSE LET reflectance == ReflectanceOf(d)
             wavelength == WavelengthOf(d)
             nd == ndvi_of(reflectance)
             re == red_edge_of(reflectance, wavelength)
         IN  IF dt = "Maturity" THEN MaturityResult(nd, re)
             ELSE IF dt = "Chlorophyll" THEN ChlorophyllResult(nd)
             ELSE IF dt = "Anthocyanin" THEN AnthocyaninResult(nd)
             ELSE NoResult

(***************************************************************************)
(* The inputs of a call.  analyze_spectral_data takes whatever table the   *)
(* caller hands it: a CSV upload is not range-checked, so a reflectance    *)
(* may be negative or zero.                                                *)
(***************************************************************************)
\* reflectance cells, in thousandths
RVals == {-200, 0, 199, 200, 800}

\* the wavelength of the first sample; the samples lie 1 nm apart
W0s == {400, 679, 700, 749}

\* what the caller passes as detection_type; "Other" is any string that is
\* none of the three modes
DetectionInputs == DetectionTypes \cup {"Other"}

\* every spectrum of n samples from w0 on with cells from RVals
FreeRows(n, w0) ==
    { [i \in 1..n |-> [Wavelength |-> w0 + i - 1, Reflectance |-> f[i]]] :
        f \in [1..n -> RVals] }

\* a spectrum of n samples: a at position 100 (the 101st sample), b at the
\* last position, fill everywhere else
LongRows(n, w0, fill, a, b) ==
    [i \in 1..n |->
        [Wavelength |-> w0 + i - 1,
         Reflectance |-> IF i = n THEN b
                         ELSE IF i = NdviIndex + 1 THEN a ELSE fill]]

ShortSpectra == UNION { FreeRows(n, w0) : n \in 0..MaxShort, w0 \in W0s }

LongSpectra ==
    { LongRows(n, w0, fill, a, b) :
        n \in NdviIndex..(NdviIndex + MaxExtra), w0 \in W0s,
        fill \in RVals, a \in RVals, b \in RVals }

\* (reflectance[100], reflectance[-1]) pairs that put a computed value just
\* beside a threshold or a rounding step: ndvi = 1/200, 37/100, 27/47
EdgePairs == {<<199, 201>>, <<63, 137>>, <<30, 111>>}

\* spectra whose values fall just beside a threshold: a band of two samples
\* with maturity_score 60.025, and 102 samples with the pairs above
EdgeSpectra ==
    { [i \in 1..2 |-> [Wavelength |-> 748 + i, Reflectance |-> 199 + i]] }
    \cup { LongRows(NdviIndex + 2, 400, 0, p[1], p[2]) : p \in EdgePairs }

DataInputs ==
    {NoData} \cup { Frame(r) : r \in ShortSpectra \cup LongSpectra \cup EdgeSpectra }

\* no call has returned yet
Pending == [type |-> "Pending"]

\* upload_time is None
NoTime == -1

\* the st.file_uploader holds no file
NoFile == [present |-> FALSE, has_header |-> FALSE, lines |-> <<>>]

\* the st.slider was not drawn in the latest run
NoSlider == [shown |-> FALSE, min |-> 0, max |-> 0, value |-> <<0, 0>>]

\* init_session_state: the defaults of a new session
SessionDefaults ==
    /\ uploaded_data = NoData
    /\ filtered_data = NoData
    /\ detection_result = NoResult
    /\ analysis_history = <<>>
    /\ selected_wavelength = <<400, 1000>>
    /\ upload_time = NoTime
    /\ analysis_completed = FALSE
    /\ just_analyzed = FALSE

\* the login form with nothing typed
NoForm == [username |-> "", password |-> ""]

\* a page on which nothing has been drawn, typed or uploaded yet
WidgetDefaults ==
    /\ uploaded_file = NoFile
    /\ slider = NoSlider
    /\ messages = {}
    /\ login_form = NoForm

\* init_session_state: nobody is logged in and main shows the login page
AccountDefaults ==
    /\ current_page = "login"
    /\ logged_in = FALSE
    /\ user_name = ""

\* connected_device is None
NoDevice == [name |-> "None"]

\* init_session_state: no Bluetooth device was found or connected.  The
\* keys received_data, connection_error, bluetooth_supported and the two
\* UUIDs keep their defaults in every run and are left out.
BluetoothDefaults ==
    /\ bluetooth_status = "disconnected"
    /\ available_devices = <<>>
    /\ connected_device = NoDevice
    /\ is_receiving_data = FALSE
    /\ last_connection_time = NoTime
    /\ data_buffer = <<>>

(***************************************************************************)
(* One call of analyze_spectral_data(data, detection_type).  ndvi and      *)
(* red_edge are the function's locals as the call left them.               *)
(***************************************************************************)
Init ==
    /\ data \in DataInputs
    /\ detection_type \in DetectionInputs
    /\ ndvi = Unset
    /\ red_edge = Unset
    /\ result = Pending
    /\ pc = "ready"
    /\ SessionDefaults
    /\ WidgetDefaults
    /\ AccountDefaults
    /\ BluetoothDefaults
    /\ now = 0

Analyze ==
    /\ pc = "ready"
    /\ result' = analyze_spectral_data(data, detection_type)
    /\ ndvi' = IF IsEmpty(data) THEN Unset ELSE ndvi_of(ReflectanceOf(data))
    /\ red_edge' = IF IsEmpty(data) THEN Unset
                   ELSE red_edge_of(ReflectanceOf(data), WavelengthOf(data))
    /\ pc' = "done"
    /\ UNCHANGED <<data, detection_type, session, widgets, now, account,
                   bluetooth>>

Next == Analyze

Spec == Init /\ [][Next]_vars

(***************************************************************************)
(* Claims.                                                                 *)
(***************************************************************************)
\* the call has returned and was given a spectrum with at least one sample
NonEmptyCall == pc = "done" /\ ~data.none /\ Len(data.rows) > 0

\* the sample at numpy position 100 and the last sample, in thousandths
At100 == data.rows[101].Reflectance
Last == data.rows[Len(data.rows)].Reflectance

\* 50 + 100*ndvi + 50*red_edge from the locals of the call
RawScore == FAdd(FAdd(Num(50), FMul(Num(100), ndvi)), FMul(Num(50), red_edge))

\* clamp(x, 0, 100), with x that is not a number clamped to 0 as
\* min(100, max(0, x)) does
Clamp(x) ==
    IF FGt(x, Num(100)) THEN Num(100) ELSE IF FGe(x, Zero) THEN x ELSE Zero

\* C1: analyze_spectral_data returns None whenever the spectrum is None or
\* has zero samples, whatever the detection mode.
C1_EmptyGivesNoResult ==
    pc = "done" /\ (data.none \/ Len(data.rows) = 0) => result = NoResult

C1_Witness ==
    /\ pc = "done"
    /\ ~data.none
    /\ Len(data.rows) = 0
    /\ detection_type = "Anthocyanin"
    /\ result = NoResult

\* C2 (as claimed): a Maturity result says "mature" exactly when the score
\* field it carries is >= 60.
C2_StatusIffScoreField ==
    pc = "done" /\ result.type = "Maturity" =>
        (result.maturity_status = "mature" <=> FGe(result.score, Num(60)))

\* C3: the score of a Maturity result lies in [0, 100] for every non-empty
\* spectrum.
C3_ScoreInRange ==
    pc = "done" /\ result.type = "Maturity" =>
        IsFin(result.score) /\ FLe(Zero, result.score) /\ FLe(result.score, Num(100))

C3_Witness ==
    /\ NonEmptyCall
    /\ result.type = "Maturity"
    /\ IsFin(ndvi)
    /\ FGt(RawScore, Num(100))
    /\ result.score = Num(100)

\* C4 (as claimed): every result of the three modes carries a confidence
\* within [0, 95].
C4_ConfidenceInRange ==
    pc = "done" /\ result.type \in DetectionTypes =>
        FLe(Zero, result.confidence) /\ FLe(result.confidence, Num(95))

\* C5: for a spectrum of at most 100 samples the ndvi local is exactly 0.
C5_ShortSpectrumNdviZero ==
    NonEmptyCall /\ Len(data.rows) <= 100 => ndvi = Zero

C5_Witness ==
    /\ NonEmptyCall
    /\ Len(data.rows) = 100
    /\ data.rows[1].Reflectance = 200
    /\ data.rows[100].Reflectance = 800
    /\ ndvi = Zero

\* C6 (as claimed): with more than 100 samples and
\* reflectance[last] + reflectance[100] = 0 the ndvi index is 0, the result
\* is the one computed from ndvi = 0, and every numeric field is a number.
C6_ZeroSumGivesZeroIndex ==
    NonEmptyCall /\ Len(data.rows) > 100 /\ Last + At100 = 0 =>
        /\ ndvi = Zero
        /\ result.type = "Maturity" => result = MaturityResult(Zero, red_edge)
        /\ result.type = "Chlorophyll" =>
               result = ChlorophyllResult(Zero) /\ IsFin(result.total)
        /\ result.type = "Anthocyanin" =>
               result = AnthocyaninResult(Zero) /\ IsFin(result.content)

\* C7: for every non-empty spectrum and each of the three modes the call
\* returns a result whose type is the requested mode, never None.
C7_NonEmptyGivesResult ==
    NonEmptyCall /\ detection_type \in DetectionTypes =>
        result # NoResult /\ result.type = detection_type

C7_Witness ==
    /\ NonEmptyCall
    /\ Len(data.rows) > 100
    /\ Last + At100 = 0
    /\ detection_type = "Chlorophyll"
    /\ result.type = "Chlorophyll"

\* the spectrum of the call with every sample except the one at position 100
\* and the last one given reflectance v
C8_OthersSetTo(v) ==
    [data EXCEPT !.rows =
        [i \in 1..Len(data.rows) |->
            IF i \in {101, Len(data.rows)} THEN data.rows[i]
            ELSE [data.rows[i] EXCEPT !.Reflectance = v]]]

\* C8: with more than 100 samples ndvi is
\* (reflectance[last] - reflectance[100]) / (reflectance[last] + reflectance[100])
\* and no other sample has a say in it.
C8_NdviFromTwoSamples ==
    NonEmptyCall /\ Len(data.rows) > 100 =>
        /\ Last + At100 # 0 =>
               IsFin(ndvi) /\ ndvi.n * (Last + At100) = ndvi.d * (Last - At100)
        /\ \A v \in RVals : ndvi_of(ReflectanceOf(C8_OthersSetTo(v))) = ndvi

C8_Witness ==
    /\ NonEmptyCall
    /\ Len(data.rows) = 102
    /\ At100 = 200
    /\ Last = 800
    /\ data.rows[1].Reflectance = 199
    /\ ndvi = Fin(3, 5)

\* the positions of the samples whose wavelength w has 680 <= w <= 750
C9_Band ==
    { i \in 1..Len(data.rows) :
        data.rows[i].Wavelength >= 680 /\ data.rows[i].Wavelength <= 750 }

RECURSIVE C9_Sum(_)
C9_Sum(S) ==
    IF S = {} THEN 0
    ELSE LET i == CHOOSE j \in S : TRUE
         IN  data.rows[i].Reflectance + C9_Sum(S \ {i})

C9_First == CHOOSE i \in C9_Band : \A j \in C9_Band : i <= j
C9_Final == CHOOSE i \in C9_Band : \A j \in C9_Band : j <= i

\* C9: red_edge is the trapezoidal sum (unit spacing) of the reflectance of
\* exactly the samples with 680 <= w <= 750, every inner sample counted once
\* and the two outer ones half, and 0 when no sample lies in the band.
C9_RedEdgeIsBandTrapezoid ==
    NonEmptyCall =>
        IF C9_Band = {} THEN red_edge = Zero
        ELSE red_edge =
                 Fin(2 * C9_Sum(C9_Band) - data.rows[C9_First].Reflectance
                         - data.rows[C9_Final].Reflectance, 2000)

C9_Witness ==
    /\ NonEmptyCall
    /\ \E i \in 1..Len(data.rows) : data.rows[i].Wavelength = 679
    /\ \E i \in 1..Len(data.rows) : data.rows[i].Wavelength = 680
    /\ \E i \in 1..Len(data.rows) : data.rows[i].Wavelength = 750
    /\ \E i \in 1..Len(data.rows) : data.rows[i].Wavelength = 751
    /\ red_edge = Num(14)

\* C10 (as claimed): the score of a Maturity result equals
\* clamp(50 + 100*ndvi + 50*red_edge, 0, 100) and its boll_weight equals
\* 4.5 + 1.5*(score/100), within [4.5, 6.0].
C10_ScoreAndWeightExact ==
    pc = "done" /\ result.type = "Maturity" =>
        /\ result.score = Clamp(RawScore)
        /\ result.boll_weight =
               FAdd(Fin(9, 2), FMul(Fin(3, 2), FDiv(result.score, Num(100))))
        /\ FLe(Fin(9, 2), result.boll_weight)
        /\ FLe(result.boll_weight, Num(6))

\* C10 (amended): the score is clamp(50 + 100*ndvi + 50*red_edge, 0, 100)
\* rounded to one decimal, the boll_weight is 4.5 + 1.5*(s/100) rounded to
\* two decimals with s the clamped score before rounding, and the
\* boll_weight lies in [4.5, 6.0].
C10_ScoreAndWeightRounded ==
    pc = "done" /\ result.type = "Maturity" =>
        /\ result.score = Round(Clamp(RawScore), 1)
        /\ result.boll_weight =
               Round(FAdd(Fin(9, 2),
                          FMul(Fin(3, 2), FDiv(Clamp(RawScore), Num(100)))), 2)
        /\ FLe(Fin(9, 2), result.boll_weight)
        /\ FLe(result.boll_weight, Num(6))

C10_Witness ==
    /\ NonEmptyCall
    /\ result.type = "Maturity"
    /\ IsFin(ndvi)
    /\ ndvi # Zero
    /\ red_edge # Zero
    /\ FGt(RawScore, Zero)
    /\ FLt(RawScore, Num(100))
    /\ result.score # RawScore

\* C11 (as claimed): in Maturity mode confidence = min(95, 70 + 0.25*score),
\* it lies in [70, 95], and maturity_status is mature or immature.
C11_ConfidenceExact ==
    NonEmptyCall /\ result.type = "Maturity" =>
        /\ result.confidence =
               PyMin(Num(95), FAdd(Num(70), FMul(Fin(1, 4), result.score)))
        /\ FLe(Num(70), result.confidence)
        /\ FLe(result.confidence, Num(95))
        /\ result.maturity_status \in {"mature", "immature"}

\* C11 (amended): in Maturity mode confidence is min(95, 70 + 0.25*s) rounded
\* to one decimal, s being the clamped score before its rounding; it lies in
\* [70, 95], and maturity_status is mature or immature.
C11_ConfidenceRounded ==
    NonEmptyCall /\ result.type = "Maturity" =>
        /\ result.confidence =
               Round(IF FLt(FAdd(Num(70), FMul(Fin(1, 4), Clamp(RawScore))), Num(95))
                     THEN FAdd(Num(70), FMul(Fin(1, 4), Clamp(RawScore)))
                     ELSE Num(95), 1)
        /\ FLe(Num(70), result.confidence)
        /\ FLe(result.confidence, Num(95))
        /\ result.maturity_status \in {"mature", "immature"}

C11_Witness ==
    /\ NonEmptyCall
    /\ result.type = "Maturity"
    /\ result.score = Num(45)
    /\ result.confidence = Fin(812, 10)
    /\ result.maturity_status = "immature"

\* C12 (as claimed): In Maturity mode the grade and the recommendation go
\* together and follow the score of the result: "excellent" with
\* "harvest_within_3_days" when score > 80, "good" with
\* "harvest_in_5_to_7_days" when 60 < score <= 80, "fair" with
\* "keep_growing" when score <= 60, and no other pairing occurs.
C12_BandsFollowScoreField ==
    NonEmptyCall /\ result.type = "Maturity" =>
        /\ FGt(result.score, Num(80)) =>
              /\ result.fiber_quality = "excellent"
              /\ result.recommendation = "harvest_within_3_days"
        /\ FGt(result.score, Num(60)) /\ FLe(result.score, Num(80)) =>
              /\ result.fiber_quality = "good"
              /\ result.recommendation = "harvest_in_5_to_7_days"
        /\ FLe(result.score, Num(60)) =>
              /\ result.fiber_quality = "fair"
              /\ result.recommendation = "keep_growing"

\* the second spectrum of a comparison between two calls: 102 samples with
\* every pair of cells at position 100 and at the end, and the edge spectra
OtherSpectra ==
    { Frame(LongRows(NdviIndex + 2, 400, 0, a, b)) : a \in RVals, b \in RVals }
    \cup { Frame(r) : r \in EdgeSpectra }

\* the ndvi the call computes for spectrum d
NdviFor(d) == ndvi_of(ReflectanceOf(d))

\* C13: In Chlorophyll mode the values are monotonically increasing in ndvi:
\* for the analysed spectrum and any second spectrum with ndvi1 <= ndvi2,
\* chlorophyll_a, chlorophyll_b and total of the first result are at most
\* those of the second, and the other way round when ndvi2 <= ndvi1.
C13_ChlorophyllIncreasing ==
    NonEmptyCall /\ result.type = "Chlorophyll" =>
        \A d2 \in OtherSpectra :
            LET r2 == analyze_spectral_data(d2, "Chlorophyll")
            IN  /\ FLe(ndvi, NdviFor(d2)) =>
                    /\ FLe(result.chlorophyll_a, r2.chlorophyll_a)
                    /\ FLe(result.chlorophyll_b, r2.chlorophyll_b)
                    /\ FLe(result.total, r2.total)
                /\ FLe(NdviFor(d2), ndvi) =>
                    /\ FLe(r2.chlorophyll_a, result.chlorophyll_a)
                    /\ FLe(r2.chlorophyll_b, result.chlorophyll_b)
                    /\ FLe(r2.total, result.total)

\* a Chlorophyll result for ndvi = 37/100 that lies strictly between the
\* results of two other spectra
C13_Witness ==
    /\ NonEmptyCall /\ result.type = "Chlorophyll"
    /\ ndvi = Fin(37, 100)
    /\ result.total = Fin(272, 100)
    /\ \E d2, d3 \in OtherSpectra :
          /\ FLt(NdviFor(d2), ndvi) /\ FLt(ndvi, NdviFor(d3))
          /\ FLt(analyze_spectral_data(d2, "Chlorophyll").chlorophyll_b,
                 result.chlorophyll_b)
          /\ FLt(result.chlorophyll_b,
                 analyze_spectral_data(d3, "Chlorophyll").chlorophyll_b)

\* C14 (as claimed): In Chlorophyll mode total = a + b, the status is
\* "normal" iff 2.0 <= total <= 3.0, "high" iff total > 3.0 and "low" iff
\* total < 2.0, and confidence = min(95, 65 + 10 * total).
C14_TotalStatusConfidence ==
    NonEmptyCall /\ result.type = "Chlorophyll" =>
        /\ result.total = FAdd(result.chlorophyll_a, result.chlorophyll_b)
        /\ result.status = "normal" <=>
              FLe(Num(2), result.total) /\ FLe(result.total, Num(3))
        /\ result.status = "high" <=> FGt(result.total, Num(3))
        /\ result.status = "low" <=> FLt(result.total, Num(2))
        /\ result.confidence =
              PyMin(Num(95), FAdd(Num(65), FMul(Num(10), result.total)))

\* C15: In Anthocyanin mode the content is monotonically decreasing in ndvi:
\* for the analysed spectrum and any second spectrum with ndvi1 <= ndvi2 the
\* content of the first result is at least that of the second, and the other
\* way round when ndvi2 <= ndvi1.
C15_AnthocyaninDecreasing ==
    NonEmptyCall /\ result.type = "Anthocyanin" =>
        \A d2 \in OtherSpectra :
            LET r2 == analyze_spectral_data(d2, "Anthocyanin")
            IN  /\ FLe(ndvi, NdviFor(d2)) => FGe(result.content, r2.content)
                /\ FLe(NdviFor(d2), ndvi) => FGe(r2.content, result.content)

\* an Anthocyanin result for ndvi = 27/47 whose content 1.84 lies strictly
\* between the contents of two other spectra
C15_Witness ==
    /\ NonEmptyCall /\ result.type = "Anthocyanin"
    /\ ndvi = Fin(27, 47)
    /\ result.content = Fin(184, 100)
    /\ \E d2, d3 \in OtherSpectra :
          /\ FLt(NdviFor(d2), ndvi) /\ FLt(ndvi, NdviFor(d3))
          /\ FGt(analyze_spectral_data(d2, "Anthocyanin").content, result.content)
          /\ FGt(result.content, analyze_spectral_data(d3, "Anthocyanin").content)

\* C16 (as claimed): In Anthocyanin mode the two labels occur in the pairs
\* ("strong", "fully_mature") for content > 2.0, ("medium", "mid_mature") for
\* 1.5 < content <= 2.0 and ("weak", "early") for content <= 1.5, and
\* confidence = min(95, 60 + 15 * content).
C16_PairsFollowContentField ==
    NonEmptyCall /\ result.type = "Anthocyanin" =>
        /\ FGt(result.content, Num(2)) =>
              /\ result.antioxidant = "strong"
              /\ result.accumulation_stage = "fully_mature"
        /\ FGt(result.content, Fin(3, 2)) /\ FLe(result.content, Num(2)) =>
              /\ result.antioxidant = "medium"
              /\ result.accumulation_stage = "mid_mature"
        /\ FLe(result.content, Fin(3, 2)) =>
              /\ result.antioxidant = "weak"
              /\ result.accumulation_stage = "early"
        /\ result.confidence =
              PyMin(Num(95), FAdd(Num(60), FMul(Num(15), result.content)))

(***************************************************************************)
(* The analysis page.  Streamlit runs the whole script of analysis_page    *)
(* on every interaction; one action below is one such run, from the first  *)
(* line to the last, with the widget the user touched.  A run that ends in *)
(* st.rerun() is followed at once by a run in which nothing is clicked,    *)
(* and the two together are one action.                                    *)
(*                                                                         *)
(* A file is the sequence of its lines and a line the sequence of its      *)
(* cells; has_header tells whether its author wrote column names on the    *)
(* first line.  Times are whole seconds of the clock.  Messages:           *)
(*   "need_two_columns"  st.error of load_spectral_data, line 206          *)
(*   "load_exception"    st.error of load_spectral_data, line 209          *)
(*   "load_ok", "file_empty", "load_failed"   lines 816, 827, 829          *)
(*   "sample_ok"  line 837;  "analysis_ok", "analysis_failed"  963, 1010   *)
(***************************************************************************)
\* the analysis history keeps at most MaxHistory records in the model
MaxHistory == 2

\* the clock runs from 0 to MaxClock
MaxClock == 1

\* a cell holding text and a cell holding a number
Name(s) == [k |-> "str", s |-> s, v |-> 0]
Numeral(v) == [k |-> "num", s |-> "", v |-> v]

File(has_header, lines) ==
    [present |-> TRUE, has_header |-> has_header, lines |-> lines]

\* column names and data lines of the uploaded files
TwoNames == <<Name("wl"), Name("refl")>>
ThreeNames == <<Name("wl"), Name("refl"), Name("note")>>
Line(w, r) == <<Numeral(w), Numeral(r)>>
TwoLines == <<Line(400, 200), Line(500, 800)>>
ThreeLines == <<Line(400, 200), Line(450, 100), Line(500, 800)>>

\* the files a user uploads: no line at all; one column; names only; two
\* samples under names; three samples without names; two samples with a
\* third column.  Every data cell is a number, wavelengths are whole,
\* distinct and between 400 and 1000 nm.
Files ==
    { File(FALSE, <<>>),
      File(TRUE, <<<<Name("wl")>>, <<Numeral(400)>>, <<Numeral(500)>>>>),
      File(TRUE, <<TwoNames>>),
      File(TRUE, <<TwoNames>> \o TwoLines),
      File(FALSE, ThreeLines),
      File(TRUE, <<ThreeNames,
                   Line(400, 200) \o <<Numeral(7)>>,
                   Line(500, 800) \o <<Numeral(9)>>>>) }

\* the rows pandas builds from data lines: the first two cells become
\* Wavelength and Reflectance, the other cells stay in the row
TableRows(lines) ==
    [i \in 1..Len(lines) |->
        [Wavelength |-> lines[i][1].v,
         Reflectance |-> lines[i][2].v,
         extra |-> SubSeq(lines[i], 3, Len(lines[i]))]]

\* pd.read_csv(file) with header=0 (the default): the first line gives the
\* column names whatever it holds, the lines after it are the rows; a file
\* without any line raises EmptyDataError
load_spectral_data(file) ==
    IF Len(file.lines) = 0 THEN NoData
    ELSE IF Len(file.lines[1]) >= 2 THEN Frame(TableRows(Tail(file.lines)))
    ELSE NoData

\* what load_spectral_data reports with st.error
load_errors(file) ==
    IF Len(file.lines) = 0 THEN {"load_exception"}
    ELSE IF Len(file.lines[1]) >= 2 THEN {}
    ELSE {"need_two_columns"}

\* np.linspace(350, 1100, 751): the code generates 751 samples, one per
\* nanometre; the model generates SampleCount samples spread evenly over the
\* same range, at whole nanometres
SampleStart == 350
SampleStop == 1100
SampleCount == 4

\* the wavelength of the i-th generated sample
linspace(i) ==
    SampleStart + ((i - 1) * (SampleStop - SampleStart)) \div (SampleCount - 1)

\* the level of the generated curve at wavelength w, in thousandths: the
\* constant term of each of the four regions of generate_sample_data (the
\* sine terms and the seeded noise, which stay inside [0, 1], are left out)
sample_reflectance(w) ==
    IF w <= 500 THEN 50
    ELSE IF w <= 600 THEN 100
    ELSE IF w <= 700 THEN 80
    ELSE 400

generate_sample_data ==
    Frame([i \in 1..SampleCount |->
              [Wavelength |-> linspace(i),
               Reflectance |-> sample_reflectance(linspace(i)),
               extra |-> <<>>]])

\* is_dataframe_valid(df): df is a table with at least one row
is_dataframe_valid(df) == ~df.none /\ Len(df.rows) > 0

\* int(data['Wavelength'].min()) and int(data['Wavelength'].max())
\* the wavelengths of a table, as a set
Wavelengths(df) == { df.rows[i].Wavelength : i \in 1..Len(df.rows) }

min_wl(df) ==
    LET W == Wavelengths(df) IN CHOOSE w \in W : \A v \in W : w <= v
max_wl(df) ==
    LET N == { -w : w \in Wavelengths(df) }
    IN  -(CHOOSE n \in N : \A m \in N : n <= m)

\* value=[max(min_wl, 400), min(max_wl, 1000)]
default_range(df) ==
    << IF min_wl(df) > 400 THEN min_wl(df) ELSE 400,
       IF max_wl(df) < 1000 THEN max_wl(df) ELSE 1000 >>

\* data[(data['Wavelength'] >= range[0]) & (data['Wavelength'] <= range[1])]
filter_rows(df, range) ==
    SelectSeq(df.rows,
              LAMBDA r : r.Wavelength >= range[1] /\ r.Wavelength <= range[2])

\* the user did not move the slider
NoMove == <<0, 0>>

\* the session and the page as one record, which the blocks of the script
\* take and return
Current ==
    [detection_type |-> detection_type,
     uploaded_data |-> uploaded_data,
     upload_time |-> upload_time,
     filtered_data |-> filtered_data,
     selected_wavelength |-> selected_wavelength,
     detection_result |-> detection_result,
     analysis_history |-> analysis_history,
     analysis_completed |-> analysis_completed,
     just_analyzed |-> just_analyzed,
     slider |-> slider,
     messages |-> messages,
     connected_device |-> connected_device,
     data |-> data, ndvi |-> ndvi, red_edge |-> red_edge,
     result |-> result, pc |-> pc]

\* mutant of type_buttons: any button of the page sets detection_type
type_buttons_any(s, click) ==
    IF click # "none" THEN [s EXCEPT !.detection_type = click] ELSE s

\* lines 773-788: one of the three type buttons sets detection_type
type_buttons(s, click) ==
    IF click \in DetectionTypes THEN [s EXCEPT !.detection_type = click] ELSE s

\* mutant of upload_tab: a failed load clears the table of the session
upload_tab_clearing(s, file, t) ==
    IF ~file.present THEN s
    ELSE LET loaded == load_spectral_data(file)
             said == s.messages \cup load_errors(file)
         IN  IF ~loaded.none /\ Len(loaded.rows) > 0
             THEN [s EXCEPT !.uploaded_data = loaded,
                            !.upload_time = t,
                            !.messages = said \cup {"load_ok"}]
             ELSE IF ~loaded.none
             THEN [s EXCEPT !.messages = said \cup {"file_empty"}]
             ELSE [s EXCEPT !.uploaded_data = NoData,
                            !.upload_time = NoTime,
                            !.messages = said \cup {"load_failed"}]

\* lines 812-829: the upload tab, run whenever the uploader holds a file
upload_tab(s, file, t) ==
    IF ~file.present THEN s
    ELSE LET loaded == load_spectral_data(file)
             said == s.messages \cup load_errors(file)
         IN  IF ~loaded.none /\ Len(loaded.rows) > 0
             THEN [s EXCEPT !.uploaded_data = loaded,
                            !.upload_time = t,
                            !.messages = said \cup {"load_ok"}]
             ELSE IF ~loaded.none
             THEN [s EXCEPT !.messages = said \cup {"file_empty"}]
             ELSE [s EXCEPT !.messages = said \cup {"load_failed"}]

\* lines 834-839: the sample tab
sample_tab(s, click, t) ==
    IF click = "sample"
    THEN [s EXCEPT !.uploaded_data = generate_sample_data,
                   !.upload_time = t,
                   !.messages = @ \cup {"sample_ok"}]
    ELSE s

\* lines 938 and 969-972: more keys of a result dictionary: result['time'],
\* result['data_source'] ("bluetooth_device" while a device is connected,
\* else "uploaded_file") and, while a device is connected,
\* result['device_info']
Stamp(r, t, device) ==
    LET keys == IF device # NoDevice
                THEN {"time", "data_source", "device_info"}
                ELSE {"time", "data_source"}
    IN  [f \in DOMAIN r \cup keys |->
            IF f = "time" THEN t
            ELSE IF f = "data_source"
                 THEN (IF device # NoDevice THEN "bluetooth_device"
                       ELSE "uploaded_file")
            ELSE IF f = "device_info" THEN device
            ELSE r[f]]

\* lines 950-1010: the analyse button was clicked in a run that drew it;
\* the engine gets the filtered table of this run
analyze_clicked(s, t) ==
    LET r == analyze_spectral_data(s.filtered_data, s.detection_type)
        stamped == Stamp(r, t, s.connected_device)
    IN  IF r # NoResult
        THEN [s EXCEPT
                 !.data = s.filtered_data,
                 !.ndvi = ndvi_of(ReflectanceOf(s.filtered_data)),
                 !.red_edge = red_edge_of(ReflectanceOf(s.filtered_data),
                                          WavelengthOf(s.filtered_data)),
                 !.result = r,
                 !.pc = "done",
                 !.detection_result = stamped,
                 !.analysis_history = Append(@, stamped),
                 !.analysis_completed = TRUE,
                 !.just_analyzed = TRUE,
                 !.messages = @ \cup {"analysis_ok"}]
        ELSE [s EXCEPT
                 !.data = s.filtered_data,
                 !.ndvi = ndvi_of(ReflectanceOf(s.filtered_data)),
                 !.red_edge = red_edge_of(ReflectanceOf(s.filtered_data),
                                          WavelengthOf(s.filtered_data)),
                 !.result = r,
                 !.pc = "done",
                 !.messages = @ \cup {"analysis_failed"}]

\* mutant of reanalyze_clicked: the entry of the discarded result leaves
\* the history
reanalyze_clicked_discarding(s) ==
    [s EXCEPT !.analysis_completed = FALSE,
              !.detection_result = NoResult,
              !.just_analyzed = FALSE,
              !.analysis_history = SubSeq(@, 1, Len(@) - 1)]

\* lines 1036-1041: the re-analyse button under a result
reanalyze_clicked(s) ==
    [s EXCEPT !.analysis_completed = FALSE,
              !.detection_result = NoResult,
              !.just_analyzed = FALSE]

\* lines 892-928: the slider and the filtered table.  The slider keeps the
\* range the user chose as long as its bounds stay the same; a slider with
\* other bounds is a new widget and starts at its default range.
parameters(s, move) ==
    IF ~is_dataframe_valid(s.uploaded_data) THEN [s EXCEPT !.slider = NoSlider]
    ELSE
      LET lo == min_wl(s.uploaded_data)
          hi == max_wl(s.uploaded_data)
          wavelength_range ==
              IF ~(s.slider.shown /\ s.slider.min = lo /\ s.slider.max = hi)
              THEN default_range(s.uploaded_data)
              ELSE IF move # NoMove THEN move ELSE s.slider.value
          filtered == filter_rows(s.uploaded_data, wavelength_range)
      IN  [s EXCEPT
              !.slider = [shown |-> TRUE, min |-> lo, max |-> hi,
                          value |-> wavelength_range],
              !.selected_wavelength = wavelength_range,
              !.filtered_data = IF Len(filtered) > 0 THEN Frame(filtered) ELSE @]

\* line 923: len(filtered_data) > 0 in the run that left s, so that the
\* analyse button was drawn
analyze_drawn(s) ==
    /\ s.slider.shown
    /\ Len(filter_rows(s.uploaded_data, s.slider.value)) > 0

\* lines 930-1041: the buttons under the plot
buttons(s, click, t) ==
    IF ~analyze_drawn(s) THEN s
    ELSE IF click = "analyze" THEN analyze_clicked(s, t)
    ELSE IF /\ s.just_analyzed /\ s.analysis_completed
            /\ s.detection_result # NoResult
            /\ click = "reanalyze"
         THEN reanalyze_clicked(s)
    ELSE s

\* one run of analysis_page on the session s0, with file in the uploader and
\* the button click and slider move of the user; the session after the run
\* is what the blocks of the script, one after the other, left in the
\* record.  A run that ends on st.rerun() towards another page (stay is
\* FALSE) leaves no widget of this page behind.
PageRunFrom(s0, file, click, move, stay) ==
    \E s1 \in {type_buttons([s0 EXCEPT !.messages = {}], click)} :
    \E s2 \in {upload_tab(s1, file, now)} :
    \E s3 \in {sample_tab(s2, click, now)} :
    \E s4 \in {parameters(s3, move)} :
    \E s5 \in {buttons(s4, click, now)} :
        /\ detection_type' = s5.detection_type
        /\ uploaded_data' = s5.uploaded_data
        /\ upload_time' = s5.upload_time
        /\ filtered_data' = s5.filtered_data
        /\ selected_wavelength' = s5.selected_wavelength
        /\ detection_result' = s5.detection_result
        /\ analysis_history' = s5.analysis_history
        /\ analysis_completed' = s5.analysis_completed
        /\ just_analyzed' = s5.just_analyzed
        /\ uploaded_file' = IF stay THEN file ELSE NoFile
        /\ slider' = IF stay THEN s5.slider ELSE NoSlider
        /\ messages' = IF stay THEN s5.messages ELSE {}
        /\ data' = s5.data
        /\ ndvi' = s5.ndvi
        /\ red_edge' = s5.red_edge
        /\ result' = s5.result
        /\ pc' = s5.pc
        /\ now' = now

\* lines 1591-1610: the page main dispatches
OnPage(page) == logged_in /\ current_page = page

\* a run of analysis_page that stays on the page
PageRun(file, click, move) ==
    /\ OnPage("analysis")
    /\ PageRunFrom(Current, file, click, move, TRUE)
    /\ UNCHANGED <<login_form, account, bluetooth>>

\* the ranges to which the user drags the slider: all of it, or a narrow
\* range between two samples
NarrowRange == <<420, 450>>

SliderChoices(lo, hi) ==
    { c \in {<<lo, hi>>, NarrowRange} : lo <= c[1] /\ c[2] <= hi }

\* the analyse button was drawn in the latest run: the slider was drawn and
\* some row lies in its range
AnalyzeShown == analyze_drawn(Current)

\* the two buttons under a result were drawn in the latest run
ResultButtonsShown ==
    /\ AnalyzeShown
    /\ just_analyzed /\ analysis_completed /\ detection_result # NoResult

\* a session on the analysis page: the user has logged in as admin and has
\* opened the page from the dashboard, with nothing uploaded yet
AppInit ==
    /\ data = NoData
    /\ detection_type = "Maturity"
    /\ ndvi = Unset
    /\ red_edge = Unset
    /\ result = Pending
    /\ pc = "ready"
    /\ SessionDefaults
    /\ WidgetDefaults
    /\ current_page = "analysis"
    /\ logged_in = TRUE
    /\ user_name = "admin"
    /\ BluetoothDefaults
    /\ now = 0

\* the user puts a file into the uploader, replaces it or removes it
UploadFile ==
    \E file \in Files \cup {NoFile} :
        /\ file # uploaded_file
        /\ PageRun(file, "none", NoMove)

SelectDetectionType ==
    \E t \in DetectionTypes : PageRun(uploaded_file, t, NoMove)

GenerateSample == PageRun(uploaded_file, "sample", NoMove)

MoveSlider ==
    /\ slider.shown
    /\ \E move \in SliderChoices(slider.min, slider.max) :
          /\ move # slider.value
          /\ PageRun(uploaded_file, "none", move)

ClickAnalyze ==
    /\ AnalyzeShown
    /\ Len(analysis_history) < MaxHistory
    /\ PageRun(uploaded_file, "analyze", NoMove)

ClickReanalyze ==
    /\ ResultButtonsShown
    /\ PageRun(uploaded_file, "reanalyze", NoMove)

\* a second passes
Tick ==
    /\ now < MaxClock
    /\ now' = now + 1
    /\ UNCHANGED <<engine, detection_type, session, widgets, account,
                   bluetooth>>

AppNext ==
    \/ UploadFile
    \/ SelectDetectionType
    \/ GenerateSample
    \/ MoveSlider
    \/ ClickAnalyze
    \/ ClickReanalyze
    \/ Tick

AppSpec == AppInit /\ [][AppNext]_vars

(***************************************************************************)
(* Claims about the analysis page.                                         *)
(***************************************************************************)
\* the step is a run of the page (time stands still in it) that called
\* analyze_spectral_data
CallingRun ==
    /\ now' = now
    /\ "analysis_ok" \in messages' \/ "analysis_failed" \in messages'

\* the session as the run of a click on the analyse button found it when it
\* reached the button, f being the file in the uploader
BeforeCall(f) ==
    parameters(upload_tab([Current EXCEPT !.messages = {}], f, now), NoMove)

FewerThanTwoColumns(file) ==
    file.present /\ (file.lines = <<>> \/ Len(file.lines[1]) < 2)

\* C18: Loading a table with fewer than two columns, or one that cannot be
\* parsed, is a load failure: load_spectral_data returns None and reports
\* an error, the page reports the failure, and the run leaves uploaded_data
\* and upload_time as they were (unless the sample button of the same run
\* replaces them).
C18_LoadFailureKeepsData ==
    [][ FewerThanTwoColumns(uploaded_file') =>
          /\ load_spectral_data(uploaded_file').none
          /\ load_errors(uploaded_file') # {}
          /\ load_errors(uploaded_file') \subseteq messages'
          /\ "load_failed" \in messages'
          /\ "load_ok" \notin messages'
          /\ "sample_ok" \notin messages' =>
                /\ uploaded_data' = uploaded_data
                /\ upload_time' = upload_time
      ]_vars

\* a one-column file in the uploader a second after a table was loaded: the
\* failure is reported and the table and its time are still there
C18_Witness ==
    /\ FewerThanTwoColumns(uploaded_file)
    /\ uploaded_file.lines # <<>>
    /\ messages = {"need_two_columns", "load_failed"}
    /\ is_dataframe_valid(uploaded_data)
    /\ upload_time = 0
    /\ now = 1

\* the table the page would hand to the engine is empty: the uploaded file
\* has a header and no row and the session holds no table, or the range of
\* the slider leaves no row of the table of the session
EmptyForEngine ==
    \/ /\ uploaded_file.present
       /\ ~load_spectral_data(uploaded_file).none
       /\ load_spectral_data(uploaded_file).rows = <<>>
       /\ ~is_dataframe_valid(uploaded_data)
    \/ /\ is_dataframe_valid(uploaded_data)
       /\ slider.shown
       /\ filter_rows(uploaded_data, slider.value) = <<>>

\* the latest run reported a failure
FailureReported ==
    messages \cap {"file_empty", "load_failed", "analysis_failed"} # {}

\* C19 (as claimed): Whenever the table that would be handed to the engine
\* is empty, the run reports a failure and does not call
\* analyze_spectral_data: no result is stored and nothing is appended to
\* the history.
C19_EmptyTableReported ==
    [][ EmptyForEngine' /\ now' = now =>
          /\ FailureReported'
          /\ "analysis_ok" \notin messages'
          /\ analysis_history' = analysis_history
          /\ detection_result' \in {detection_result, NoResult}
      ]_vars

\* the lines of a file that hold samples: all of them, or all but the names
DataLines(file) == IF file.has_header THEN Tail(file.lines) ELSE file.lines

\* the (wavelength, reflectance) pairs of a sequence of lines or rows
FirstTwoOfLines(lines) ==
    [i \in 1..Len(lines) |-> <<lines[i][1].v, lines[i][2].v>>]
FirstTwoOfRows(rows) ==
    [i \in 1..Len(rows) |-> <<rows[i].Wavelength, rows[i].Reflectance>>]

\* C20 (as claimed): Loading accepts a table with or without a header row
\* and yields one (wavelength, reflectance) sample per data row, taken from
\* the first two columns whatever their names; and two loaded tables that
\* agree on their first two columns give the same analysis result in every
\* mode.
C20_OneSamplePerDataRow ==
    uploaded_file.present /\ ~FewerThanTwoColumns(uploaded_file) =>
        LET loaded == load_spectral_data(uploaded_file)
        IN  /\ ~loaded.none
            /\ FirstTwoOfRows(loaded.rows) =
                  FirstTwoOfLines(DataLines(uploaded_file))
            /\ \A other \in Files :
                  LET table == load_spectral_data(other)
                  IN  /\ ~table.none
                      /\ FirstTwoOfRows(table.rows) = FirstTwoOfRows(loaded.rows)
                      => \A dt \in DetectionTypes :
                            analyze_spectral_data(table, dt) =
                               analyze_spectral_data(loaded, dt)

(***************************************************************************)
(* The whole application.  main dispatches one of six pages; a button of   *)
(* a page changes the session and, through st.rerun(), makes main run      *)
(* again, so that one action is the run in which the button is found       *)
(* pressed together with the run that follows it.  A widget that a run     *)
(* does not draw loses its state: on leaving analysis_page the uploader    *)
(* and the slider are gone, on leaving login_page the typed text.          *)
(*                                                                         *)
(* More strings in ASCII: user_name fangkeyonghu -> "guest_user"; device   *)
(* types guangpuyi -> "spectrometer", duoguangpu chuanganqi ->             *)
(* "multispectral_sensor", yelvsuji -> "chlorophyll_meter", zhiwu          *)
(* jiankang jiance -> "plant_health_monitor".                              *)
(***************************************************************************)

\* bounds of the inputs of the whole application: the entries of the device
\* list the user connects to, and the texts typed into the login form
MaxChoice == 1

Usernames == {"admin", "guest"}
Passwords == {"admin", ""}

\* the one file uploaded in a session that visits every page: two samples
\* of the red edge band under names
BandLines == <<Line(700, 200), Line(720, 300)>>

SiteFiles == { File(TRUE, <<TwoNames>> \o BandLines) }

Pages == {"login", "dashboard", "analysis", "result", "history", "bluetooth"}

\* mutant of main: the login check sends a logged-out session away from the
\* login page
main_gate_reversed(li, page) ==
    IF ~li /\ page = "login" THEN "dashboard"
    ELSE IF page \in Pages THEN page
    ELSE "login"

\* lines 1591-1610: the page main dispatches for a session
main(li, page) ==
    IF ~li /\ page # "login" THEN "login"
    ELSE IF page \in Pages THEN page
    ELSE "login"

\* lines 428-437
Device(name, address, type, rssi, paired) ==
    [name |-> name, address |-> address, type |-> type, rssi |-> rssi,
     paired |-> paired]

simulate_bluetooth_devices ==
    << Device("SpectraScan-2000", "AA:BB:CC:DD:EE:01", "spectrometer", -45, TRUE),
       Device("AgriSpectrum-Pro", "AA:BB:CC:DD:EE:02", "spectrometer", -52, FALSE),
       Device("CropSense-300", "AA:BB:CC:DD:EE:03", "multispectral_sensor", -60, TRUE),
       Device("LeafAnalyzer-BT", "AA:BB:CC:DD:EE:04", "chlorophyll_meter", -65, FALSE),
       Device("PlantHealth-Monitor", "AA:BB:CC:DD:EE:05", "plant_health_monitor", -70, TRUE) >>

\* random.randint(a, b): some integer of a..b, and ValueError when the
\* range is empty
randint_raises(a, b) == a > b

\* lines 439-481: the packet is built with random.randint(-40, -60) as its
\* signal strength, so that every call ends in ValueError
simulate_spectral_data_from_device_raises == randint_raises(-40, -60)

\* lines 1440 and 1475-1485: what a run of bluetooth_connection_page says for
\* a device and a stream flag: the packet of a running stream is asked for,
\* the call raises and the run ends in the exception, before
\* process_received_data and before the session is touched
bluetooth_messages(device, receiving) ==
    IF device # NoDevice /\ receiving /\ simulate_spectral_data_from_device_raises
    THEN {"exception"}
    ELSE {}

\* lines 1045-1046 and 1303-1304: what result_page and history_page say
result_messages(r) == IF r = NoResult THEN {"no_result"} ELSE {}
history_messages(h) == IF h = <<>> THEN {"no_history"} ELSE {}

\* st.rerun() towards a page other than analysis_page, for a session whose
\* login flag is li: the widgets of the page left are gone and the run that
\* follows draws the page and says said
Goto(li, page, said) ==
    /\ logged_in' = li
    /\ current_page' = main(li, page)
    /\ uploaded_file' = NoFile
    /\ slider' = NoSlider
    /\ login_form' = NoForm
    /\ messages' = said

\* st.rerun() towards analysis_page for the session s0: the run that follows
\* draws the page with an empty uploader and a new slider
Arrive(s0) ==
    /\ PageRunFrom([s0 EXCEPT !.slider = NoSlider], NoFile, "none", NoMove, TRUE)
    /\ current_page' = main(logged_in, "analysis")
    /\ login_form' = NoForm
    /\ UNCHANGED <<logged_in, user_name, bluetooth>>

\* ---- login_page ----

\* mutant of SubmitLogin: the password is not compared
SubmitLogin_any_password(username, password) ==
    /\ current_page = "login"
    /\ IF username = "admin"
       THEN /\ user_name' = username
            /\ Goto(TRUE, "dashboard", {})
       ELSE /\ messages' = {"login_failed"}
            /\ login_form' = [username |-> username, password |-> password]
            /\ UNCHANGED <<account, uploaded_file, slider>>
    /\ UNCHANGED <<engine, detection_type, session, now, bluetooth>>

\* lines 572-581: the form is submitted with the login button
SubmitLogin(username, password) ==
    /\ current_page = "login"
    /\ IF username = "admin" /\ password = "admin"
       THEN /\ user_name' = username
            /\ Goto(TRUE, "dashboard", {})
       ELSE /\ messages' = {"login_failed"}
            /\ login_form' = [username |-> username, password |-> password]
            /\ UNCHANGED <<account, uploaded_file, slider>>
    /\ UNCHANGED <<engine, detection_type, session, now, bluetooth>>

\* lines 583-588: the form is submitted with the guest button
GuestLogin ==
    /\ current_page = "login"
    /\ user_name' = "guest_user"
    /\ Goto(TRUE, "dashboard", {})
    /\ UNCHANGED <<engine, detection_type, session, now, bluetooth>>

Login ==
    \/ \E username \in Usernames, password \in Passwords :
          SubmitLogin(username, password)
    \/ GuestLogin

\* ---- dashboard_page ----

\* lines 608-618 and 685-687: the buttons that lead to another page
DashboardGoto ==
    /\ OnPage("dashboard")
    /\ \/ Goto(logged_in, "bluetooth",
               bluetooth_messages(connected_device, is_receiving_data))
       \/ Goto(logged_in, "history", history_messages(analysis_history))
    /\ UNCHANGED <<engine, detection_type, session, now, user_name, bluetooth>>

\* lines 612-614
DashboardAnalysis ==
    /\ OnPage("dashboard")
    /\ Arrive(Current)

\* lines 689-693: the quick start sets the mode
QuickStart ==
    /\ OnPage("dashboard")
    /\ Arrive([Current EXCEPT !.detection_type = "Maturity"])

\* mutant of Logout: the result and the history of the user are cleared
Logout_clearing ==
    /\ OnPage("dashboard")
    /\ Goto(FALSE, "login", {})
    /\ detection_result' = NoResult
    /\ analysis_history' = <<>>
    /\ UNCHANGED <<engine, detection_type, uploaded_data, upload_time,
                   filtered_data, selected_wavelength, analysis_completed,
                   just_analyzed, now, user_name, bluetooth>>

\* lines 619-623
Logout ==
    /\ OnPage("dashboard")
    /\ Goto(FALSE, "login", {})
    /\ UNCHANGED <<engine, detection_type, session, now, user_name, bluetooth>>

\* ---- analysis_page: the buttons that leave it ----

\* lines 761-763: the run ends at the top of the page
AnalysisHome ==
    /\ OnPage("analysis")
    /\ Goto(logged_in, "dashboard", {})
    /\ UNCHANGED <<engine, detection_type, session, now, user_name, bluetooth>>

\* lines 859-861: the run ends in the third tab, after the upload tab
AnalysisBluetooth ==
    /\ OnPage("analysis")
    /\ \E s2 \in {upload_tab([Current EXCEPT !.messages = {}], uploaded_file, now)} :
          /\ uploaded_data' = s2.uploaded_data
          /\ upload_time' = s2.upload_time
    /\ Goto(logged_in, "bluetooth",
            bluetooth_messages(connected_device, is_receiving_data))
    /\ UNCHANGED <<engine, detection_type, filtered_data, selected_wavelength,
                   detection_result, analysis_history, analysis_completed,
                   just_analyzed, now, user_name, bluetooth>>

\* lines 1031-1034: the run ends at the bottom of the page
ViewResult ==
    /\ OnPage("analysis")
    /\ ResultButtonsShown
    /\ PageRunFrom(Current, uploaded_file, "none", NoMove, FALSE)
    /\ current_page' = main(logged_in, "result")
    /\ UNCHANGED <<login_form, logged_in, user_name, bluetooth>>

\* the uploader of a session that visits every page
SiteUploadFile ==
    \E file \in SiteFiles \cup {NoFile} :
        /\ file # uploaded_file
        /\ PageRun(file, "none", NoMove)

\* ---- result_page ----

\* lines 1047-1049 and 1059-1061
ResultAnalysis ==
    /\ OnPage("result")
    /\ Arrive(Current)

\* lines 1063-1065
ResultHome ==
    /\ OnPage("result")
    /\ detection_result # NoResult
    /\ Goto(logged_in, "dashboard", {})
    /\ UNCHANGED <<engine, detection_type, session, now, user_name, bluetooth>>

\* ---- history_page ----

\* lines 1297-1299
HistoryHome ==
    /\ OnPage("history")
    /\ Goto(logged_in, "dashboard", {})
    /\ UNCHANGED <<engine, detection_type, session, now, user_name, bluetooth>>

\* lines 1303-1308
HistoryAnalysis ==
    /\ OnPage("history")
    /\ analysis_history = <<>>
    /\ Arrive(Current)

\* lines 1311 and 1342-1345: the button of the i-th record, newest first
ViewDetails ==
    /\ OnPage("history")
    /\ \E i \in 1..Len(analysis_history) :
          detection_result' = analysis_history[Len(analysis_history) + 1 - i]
    /\ Goto(logged_in, "result", {})
    /\ UNCHANGED <<engine, detection_type, uploaded_data, upload_time,
                   filtered_data, selected_wavelength, analysis_history,
                   analysis_completed, just_analyzed, now, user_name,
                   bluetooth>>

\* ---- bluetooth_connection_page ----

\* lines 1390-1392
BluetoothHome ==
    /\ OnPage("bluetooth")
    /\ Goto(logged_in, "dashboard", {})
    /\ UNCHANGED <<engine, detection_type, session, now, user_name, bluetooth>>

\* lines 1429-1433
Scan ==
    /\ OnPage("bluetooth")
    /\ bluetooth_status # "connected"
    /\ bluetooth_status' = "scanning"
    /\ available_devices' = simulate_bluetooth_devices
    /\ Goto(logged_in, "bluetooth",
            bluetooth_messages(connected_device, is_receiving_data))
    /\ UNCHANGED <<engine, detection_type, session, now, user_name,
                   connected_device, is_receiving_data, last_connection_time,
                   data_buffer>>

\* lines 483-498: the connection succeeds after a sleep of 1.5 s, which is
\* left to Tick
connect_to_device(device_info) ==
    /\ bluetooth_status' = "connected"
    /\ connected_device' = device_info
    /\ last_connection_time' = now

\* lines 1507-1529: a device of the list drawn after a scan
Connect ==
    /\ OnPage("bluetooth")
    /\ bluetooth_status = "scanning"
    /\ \E i \in 1..MaxChoice :
          /\ i <= Len(available_devices)
          /\ connect_to_device(available_devices[i])
          /\ Goto(logged_in, "bluetooth",
                  bluetooth_messages(available_devices[i], is_receiving_data))
    /\ UNCHANGED <<engine, detection_type, session, now, user_name,
                   available_devices, is_receiving_data, data_buffer>>

\* mutant of disconnect_bluetooth: the device stays in the session
disconnect_bluetooth_keeping_device ==
    /\ bluetooth_status' = "disconnected"
    /\ connected_device' = connected_device
    /\ is_receiving_data' = FALSE
    /\ data_buffer' = <<>>

\* lines 504-510
disconnect_bluetooth ==
    /\ bluetooth_status' = "disconnected"
    /\ connected_device' = NoDevice
    /\ is_receiving_data' = FALSE
    /\ data_buffer' = <<>>

\* lines 1425-1428
Disconnect ==
    /\ OnPage("bluetooth")
    /\ bluetooth_status = "connected"
    /\ disconnect_bluetooth
    /\ Goto(logged_in, "bluetooth", {})
    /\ UNCHANGED <<engine, detection_type, session, now, user_name,
                   available_devices, last_connection_time>>

\* lines 512-517 and 1456-1460
StartStream ==
    /\ OnPage("bluetooth")
    /\ connected_device # NoDevice
    /\ ~is_receiving_data
    /\ is_receiving_data' = TRUE
    /\ Goto(logged_in, "bluetooth", bluetooth_messages(connected_device, TRUE))
    /\ UNCHANGED <<engine, detection_type, session, now, user_name,
                   bluetooth_status, available_devices, connected_device,
                   last_connection_time, data_buffer>>

\* lines 519-521 and 1461-1464
StopStream ==
    /\ OnPage("bluetooth")
    /\ connected_device # NoDevice
    /\ is_receiving_data
    /\ is_receiving_data' = FALSE
    /\ Goto(logged_in, "bluetooth", {})
    /\ UNCHANGED <<engine, detection_type, session, now, user_name,
                   bluetooth_status, available_devices, connected_device,
                   last_connection_time, data_buffer>>

\* lines 1467-1470: the table of the session is taken to analysis_page
ViewReceived ==
    /\ OnPage("bluetooth")
    /\ connected_device # NoDevice
    /\ uploaded_data # NoData
    /\ Arrive(Current)

SiteInit ==
    /\ data = NoData
    /\ detection_type = "Maturity"
    /\ ndvi = Unset
    /\ red_edge = Unset
    /\ result = Pending
    /\ pc = "ready"
    /\ SessionDefaults
    /\ WidgetDefaults
    /\ AccountDefaults
    /\ BluetoothDefaults
    /\ now = 0

SiteNext ==
    \/ Login
    \/ DashboardGoto
    \/ DashboardAnalysis
    \/ QuickStart
    \/ Logout
    \/ AnalysisHome
    \/ AnalysisBluetooth
    \/ ViewResult
    \/ SiteUploadFile
    \/ SelectDetectionType
    \/ GenerateSample
    \/ ClickAnalyze
    \/ ClickReanalyze
    \/ ResultAnalysis
    \/ ResultHome
    \/ HistoryHome
    \/ HistoryAnalysis
    \/ ViewDetails
    \/ BluetoothHome
    \/ Scan
    \/ Connect
    \/ Disconnect
    \/ StartStream
    \/ StopStream
    \/ ViewReceived

SiteSpec == SiteInit /\ [][SiteNext]_vars

\* C22: detection_type is one of the three modes in every reachable session
\* state, the engine is never called with another mode and so never returns
\* None for its mode, and the lookup type_descriptions[detection_type] of
\* analysis_page finds its key.
C22_KnownDetectionType ==
    /\ detection_type \in DetectionTypes
    /\ pc = "done" => result # NoResult /\ result.type \in DetectionTypes

\* an Anthocyanin analysis was made, and the quick start of the dashboard
\* has since set the mode back to Maturity
C22_Witness ==
    /\ pc = "done" /\ result.type = "Anthocyanin"
    /\ OnPage("analysis")
    /\ detection_type = "Maturity"
    /\ detection_result # NoResult /\ detection_result.type = "Anthocyanin"

\* C23: logged_in becomes True only in a step that submits the login form
\* with username "admin" and password "admin" or presses the guest button;
\* a step that submits any other username and password leaves logged_in
\* False, current_page "login" and user_name as they were.
C23_OnlyValidLogin ==
    [][ /\ (~logged_in /\ logged_in') =>
              (SubmitLogin("admin", "admin") \/ GuestLogin)
        /\ \A username \in Usernames, password \in Passwords :
              (<<username, password>> # <<"admin", "admin">>
                  /\ SubmitLogin(username, password)) =>
              /\ ~logged_in'
              /\ current_page' = "login"
              /\ user_name' = user_name ]_vars

\* after a guest has logged out, "admin" with an empty password was refused
C23_Witness ==
    /\ current_page = "login" /\ ~logged_in
    /\ "login_failed" \in messages
    /\ login_form = [username |-> "admin", password |-> ""]
    /\ user_name = "guest_user"

\* C24: after any sequence of user actions, main dispatches a page other
\* than the login page only for a session with logged_in True; for a session
\* with logged_in False the page dispatched is the login page.
C24_PagesNeedLogin ==
    /\ current_page \in Pages
    /\ current_page # "login" => logged_in
    /\ ~logged_in => main(logged_in, current_page) = "login"

\* a user who made an analysis has logged out
C24_Witness ==
    /\ ~logged_in /\ current_page = "login"
    /\ user_name = "admin"
    /\ analysis_history # <<>>

\* the device is one of the list that the latest scan left in the session
Listed(device) ==
    \E i \in 1..Len(available_devices) : available_devices[i] = device

\* C25: between user actions bluetooth_status is one of "disconnected",
\* "scanning", "connecting", "connected"; connected_device is not None if and
\* only if bluetooth_status is "connected"; is_receiving_data is True only
\* while a device is connected; and a device becomes the connected device
\* only in a step that presses the connect button of a device listed after
\* a scan.
C25_BluetoothConsistent ==
    /\ [](/\ bluetooth_status \in
               {"disconnected", "scanning", "connecting", "connected"}
          /\ connected_device # NoDevice <=> bluetooth_status = "connected"
          /\ is_receiving_data => connected_device # NoDevice)
    /\ [][ (connected_device' # NoDevice /\ connected_device' # connected_device)
              => /\ Connect
                 /\ bluetooth_status = "scanning"
                 /\ Listed(connected_device') ]_vars

\* a device of the scanned list is connected and its stream was started
C25_Witness ==
    /\ bluetooth_status = "connected"
    /\ connected_device = simulate_bluetooth_devices[1]
    /\ is_receiving_data
    /\ Listed(connected_device)

\* C26: the step that logs the user out sets logged_in to False and
\* current_page to "login" and leaves analysis_history, detection_result,
\* uploaded_data, filtered_data, user_name and the Bluetooth state (and the
\* rest of the session) unchanged; the step that logs a user in leaves the
\* history, the result, the tables and the Bluetooth state unchanged, so
\* that they are still there for the next user.
C26_LogoutKeepsSession ==
    [][ /\ (logged_in /\ ~logged_in') =>
              /\ current_page' = "login"
              /\ UNCHANGED <<detection_type, session, user_name, bluetooth>>
        /\ (~logged_in /\ logged_in') =>
              UNCHANGED <<detection_type, session, bluetooth>> ]_vars

\* a guest who left a result, a history, a table and a connected device in
\* the session has logged out
C26_Witness ==
    /\ ~logged_in /\ current_page = "login"
    /\ user_name = "guest_user"
    /\ analysis_history # <<>>
    /\ detection_result # NoResult
    /\ uploaded_data # NoData /\ filtered_data # NoData
    /\ bluetooth_status = "connected"

\* C21: analysis_history is an append-only log.  A run that calls the engine
\* and gets a result appends that result, with its time and source, as one
\* entry; a run whose call returns None appends nothing; and every other
\* step (re-analysis, view details, navigation, Bluetooth, logout, login)
\* leaves the log as it is.
C21_HistoryAppendOnly ==
    [][ /\ (CallingRun /\ result' # NoResult) =>
              analysis_history' =
                  Append(analysis_history, Stamp(result', now, connected_device))
        /\ (CallingRun /\ result' = NoResult) =>
              analysis_history' = analysis_history
        /\ ~CallingRun => analysis_history' = analysis_history ]_vars

\* two analyses are in the log and the older one was opened again from the
\* history page
C21_Witness ==
    /\ Len(analysis_history) = 2
    /\ analysis_history[1] # analysis_history[2]
    /\ detection_result = analysis_history[1]
    /\ OnPage("result")

\* a result dictionary without the keys the page added to it
Unstamped(r) ==
    [f \in DOMAIN r \ {"time", "data_source", "device_info"} |-> r[f]]

\* C27 (as claimed): whenever the result page shows a detection_result, the
\* filtered_data it plots and offers for export is the spectrum from which
\* that result was computed, so that the engine, run on the plotted
\* spectrum in the mode of the result, returns the result shown.
C27_PlotIsSpectrumOfResult ==
    (/\ OnPage("result")
     /\ detection_result # NoResult
     /\ filtered_data # NoData) =>
        analyze_spectral_data(filtered_data, detection_result.type)
            = Unstamped(detection_result)

\* line 729: analysis_history[-3:][::-1], the last three records, newest
\* first
recent_records(history) ==
    LET n == Len(history)
        k == IF n < 3 THEN n ELSE 3
    IN  [i \in 1..k |-> history[n + 1 - i]]

\* record.get(key) taken as a condition: a missing key gives None, and None
\* and the float 0.0 count as false (nan counts as true)
Truthy(record, key) ==
    /\ key \in DOMAIN record
    /\ ~FEq(record[key], Zero)

\* lines 738-743: the metric the dashboard shows for a record
record_metric(record) ==
    IF Truthy(record, "score")
    THEN [label |-> "maturity", value |-> record.score]
    ELSE IF Truthy(record, "total")
    THEN [label |-> "chlorophyll_content", value |-> record.total]
    ELSE [label |-> "anthocyanin_content",
          value |-> IF "content" \in DOMAIN record THEN record.content
                    ELSE Zero]

\* the metric that belongs to a record of each type
MetricOfType(record) ==
    IF record.type = "Maturity"
    THEN [label |-> "maturity", value |-> record.score]
    ELSE IF record.type = "Chlorophyll"
    THEN [label |-> "chlorophyll_content", value |-> record.total]
    ELSE [label |-> "anthocyanin_content", value |-> record.content]

\* C28 (as claimed): the dashboard lists the last three records of the
\* history, newest first, and for every result the engine can produce the
\* metric it shows for the record is the one of the record's type: the
\* score of a Maturity record, the total of a Chlorophyll record, the content
\* of an Anthocyanin record.
C28_DashboardMetricMatchesType ==
    NonEmptyCall /\ result # NoResult =>
        LET shown == recent_records(<<Stamp(result, now, connected_device)>>)
        IN  /\ Len(shown) = 1
            /\ record_metric(shown[1]) = MetricOfType(shown[1])

\* C29 (as claimed): A Maturity result with maturity_status "mature" carries
\* a harvest recommendation ("harvest_within_3_days" or
\* "harvest_in_5_to_7_days", never "keep_growing") and a fiber_quality other
\* than "fair"; a result with status "immature" recommends "keep_growing".
C29_MatureMeansHarvest ==
    NonEmptyCall /\ result.type = "Maturity" =>
        /\ result.maturity_status = "mature" =>
              /\ result.recommendation \in
                    {"harvest_within_3_days", "harvest_in_5_to_7_days"}
              /\ result.fiber_quality # "fair"
        /\ result.maturity_status = "immature" =>
              result.recommendation = "keep_growing"

\* create_maturity_gauge(value): what the gauge shows.  The needle is at
\* max(60, value) and the annotation is the fixed text "yichengshu"
\* ("already_mature"); the steps colour [0, 60] green and [60, 100] red.
create_maturity_gauge(value) ==
    [value |-> PyMax(Num(60), value), status_text |-> "already_mature"]

\* C30 (as claimed): The maturity gauge of the result page agrees with the
\* result it displays: the value it plots lies in the mature region
\* [60, 100] and its status text reads "already_mature" if and only if the
\* score of the result is at least 60 (maturity_status "mature").
C30_GaugeAgreesWithResult ==
    NonEmptyCall /\ result.type = "Maturity" =>
        LET gauge == create_maturity_gauge(result.score)
            shown_mature ==
                /\ FGe(gauge.value, Num(60)) /\ FLe(gauge.value, Num(100))
                /\ gauge.status_text = "already_mature"
        IN  /\ shown_mature <=> FGe(result.score, Num(60))
            /\ shown_mature <=> result.maturity_status = "mature"

====
